---- MODULE Spec2Model ----
(***************************************************************************)
(* Model of the two pipelines of del-packURLs:                             *)
(*   ai-suggestor.py  : sequential loop over URLs, each URL classified by  *)
(*                      analyze_url_with_ai with retry and backoff;        *)
(*   sort-keywords.py : check_pdf_url run over URLs either sequentially    *)
(*                      or on a ThreadPoolExecutor, findings sorted and    *)
(*                      written at the end.                                *)
(* One run executes one of the two programs (variable program).            *)
(***************************************************************************)
EXTENDS Integers, Sequences, FiniteSets, TLC

\* ------------------------------------------------------------------------
\* Bounds of the model
\* ------------------------------------------------------------------------
MaxBatch == 2
MaxUrl == 2
MaxDelay == 1

\* URL identities; the integer order stands for the string order of the URLs
Urls == 1..MaxUrl

Batches == UNION { [1..n -> Urls] : n \in 0..MaxBatch }

\* Python None for an integer-valued result
None == -1

\* delays an error message may announce ("seconds: N", "after N seconds", "in Ns")
Hints == {None} \cup (0..MaxDelay)

\* ------------------------------------------------------------------------
\* ai-suggestor.py : error messages
\* ------------------------------------------------------------------------
\* An exception message, described by what the code tests on it:
\*   rate_limit  : "429" in msg or "rate limit" in msg.lower() or "quota" in ...
\*   server      : "500" / "503" / "connection error" / "service unavailable"
\*   auth        : "authenticationerror" / "invalid api key" / "401"
\*   phrase      : "rate limit reached" or "quota exceeded" in msg.lower()
\*   retry_delay : N of "retry_delay { seconds: N }", or None
\*   retry_after : N of "retry after N seconds", or None
\*   try_again   : N of "try again in Ns", or None
\* "rate limit reached" contains "rate limit" and "quota exceeded" contains
\* "quota", so phrase implies rate_limit.  A message carries at most one of
\* the three delay patterns.
ErrorMessages ==
    { m \in [rate_limit : BOOLEAN, server : BOOLEAN, auth : BOOLEAN,
             phrase : BOOLEAN, retry_delay : Hints, retry_after : Hints,
             try_again : Hints] :
        /\ m.phrase => m.rate_limit
        /\ Cardinality({f \in {"retry_delay", "retry_after", "try_again"} :
                           m[f] # None}) <= 1 }

\* texts a provider can return: the two expected words, as asked for or in
\* lower case and padded, and a text that is neither
ResponseTexts == {"SENSITIVE", "OK", "sensitive", " ok ", "Maybe"}

\* str.strip() on these texts
strip(t) == IF t = " ok " THEN "ok" ELSE t

\* str.upper() on these texts and their stripped forms
upper(t) ==
    CASE t = "sensitive" -> "SENSITIVE"
      [] t = "ok" -> "OK"
      [] t = "Maybe" -> "MAYBE"
      [] OTHER -> t

\* replies of a provider: one without parts (Gemini), content (Anthropic) or
\* choices (OpenAI), as when it is blocked or empty, or one with a text
Responses ==
    {[has_text |-> FALSE, text |-> ""]}
        \cup {[has_text |-> TRUE, text |-> t] : t \in ResponseTexts}

max_retries == 5

\* parse_retry_delay without its first pattern
parse_retry_delay_no_pattern1(m) ==
    IF m.retry_after # None THEN m.retry_after
    ELSE IF m.phrase
         THEN (IF m.try_again # None THEN m.try_again ELSE 60)
    ELSE None

\* parse_retry_delay: the three patterns in the order the code tries them
parse_retry_delay(m) ==
    IF m.retry_delay # None THEN m.retry_delay
    ELSE IF m.retry_after # None THEN m.retry_after
    ELSE IF m.phrase
         THEN (IF m.try_again # None THEN m.try_again ELSE 60)
    ELSE None

\* the server error test taking authentication errors too
IsServerError_auth(m) == m.server \/ m.auth

\* the three tests of the except block
IsRateLimit(m) == m.rate_limit
IsServerError(m) == m.server
IsAuthError(m) == m.auth

\* the rate limit wait ignoring the parsed delay
RateLimitWait_default(delay) == 60

\* wait_time of the rate limit branch (line 437)
RateLimitWait(delay) == IF delay # None /\ delay > 0 THEN delay ELSE 60

\* the server error wait doubling instead of growing linearly
ServerErrorWait_exponential(r) == 15 * 2 ^ r

\* wait_time of the server error branch (line 448)
ServerErrorWait(r) == 15 * (r + 1)

\* a validation that fails the URL on a text it does not expect
Validate_strict(text) ==
    IF text = "SENSITIVE" THEN "True" ELSE IF text = "OK" THEN "False" ELSE "None"

\* the response validation of lines 418-426
Validate(text) == IF text = "SENSITIVE" THEN "True" ELSE "False"

VARIABLES
    program,          \* which of the two scripts this run executes
    urls,             \* the list read from the input file
    pc,               \* position of the main thread
    \* ai-suggestor.py main
    i,                \* number of URLs the for loop has taken
    outfile,          \* lines of the output file
    sensitive_count, processed_count, error_count,
    outcomes,         \* per URL position, the branch main took for it
    \* ai-suggestor.py analyze_url_with_ai (locals of the current call)
    response,         \* the provider's reply to the attempt: {} or {r}
    retries, response_text, error_message, wait_time, is_sensitive,
    attempts,         \* classify calls made for the current URL
    sleeps,           \* number of time.sleep calls for the current URL
    backoff_slept     \* total seconds slept for the current URL while every
                      \* failure was a server/connection error announcing
                      \* no delay; None once another failure was handled

VARIABLES
    \* sort-keywords.py
    use_concurrency,  \* the second command line argument was "yes"
    stop_requested,   \* set by signal_handler
    findings,         \* list of <<url, found_keywords>>
    findings_lock,    \* 0 when free, else the position of the holding call
    k,                \* number of URLs process_urls has taken from the list
    task,             \* per URL position, where its check_pdf_url call is
    result,           \* per URL position, how its check_pdf_url call ended
    matches,          \* per URL position, the keywords found in its PDF
    checked,          \* per URL position, number of check_pdf_url calls
    output_file       \* lines of sorted-keywords.txt

skvars == <<use_concurrency, stop_requested, findings, findings_lock, k, task,
            result, matches, checked, output_file>>

aivars == <<i, outfile, sensitive_count, processed_count, error_count,
            outcomes, response, retries, response_text, error_message,
            wait_time, is_sensitive, attempts, sleeps, backoff_slept>>

vars == <<program, urls, pc, aivars, skvars>>

\* the message of the last exception caught in the current call
LastError == CHOOSE m \in error_message : TRUE

\* a server/connection error that is nothing else and announces no delay
PlainServer(m) ==
    /\ m.server /\ ~m.rate_limit /\ ~m.auth /\ ~m.phrase
    /\ m.retry_delay = None /\ m.retry_after = None /\ m.try_again = None

\* the variables of ai-suggestor.py before its loop starts
IdleAI ==
    /\ i = 0
    /\ sensitive_count = 0 /\ processed_count = 0 /\ error_count = 0
    /\ outcomes = <<>>
    /\ response = {}
    /\ retries = 0 /\ response_text = "None" /\ error_message = {}
    /\ wait_time = None /\ is_sensitive = "None"
    /\ attempts = 0 /\ sleeps = 0 /\ backoff_slept = 0

\* the module globals of sort-keywords.py (lines 30-32) before process_urls
IdleSK ==
    /\ stop_requested = FALSE
    /\ findings = <<>>
    /\ findings_lock = 0
    /\ k = 0
    /\ task = [n \in 1..Len(urls) |-> "unsubmitted"]
    /\ result = [n \in 1..Len(urls) |-> "pending"]
    /\ matches = [n \in 1..Len(urls) |-> {}]
    /\ checked = [n \in 1..Len(urls) |-> 0]
    /\ output_file = <<>>

\* output files left by earlier runs, of at most n lines; the output file
\* is opened for appending (lines 551 and 574) and never read, so a line of
\* an earlier run is written 0, which no URL of the batch is
EarlierFiles(n) == {[a \in 1..m |-> 0] : m \in 0..n}

\* the lists of URLs given to ai-suggestor: main hands each URL to the
\* provider and to the output file (lines 576-589) and never compares two
\* URLs, so a list stands for every renaming of its URLs, and the one is
\* taken in which a URL not seen before is the least not yet used
AIBatches ==
    {us \in Batches :
        \A n \in 1..Len(us) : us[n] <= Cardinality({us[a] : a \in 1..(n - 1)}) + 1}

InitAI ==
    /\ program = "ai-suggestor"
    /\ urls \in AIBatches
    /\ outfile \in EarlierFiles(MaxBatch - Len(urls))
    /\ use_concurrency = FALSE
    /\ IdleSK
    /\ pc = "start"
    /\ IdleAI

\* main, lines 546-574: the list is read; an empty list ends the run
ReadUrls ==
    /\ program = "ai-suggestor" /\ pc = "start"
    /\ pc' = IF urls = <<>> THEN "done" ELSE "for"
    /\ UNCHANGED <<skvars, program, urls, aivars>>

\* the for loop taking a URL without counting it
NextUrl_uncounted ==
    /\ program = "ai-suggestor" /\ pc = "for"
    /\ i < Len(urls)
    /\ i' = i + 1
    /\ pc' = "while"
    /\ UNCHANGED <<skvars, program, urls, outfile, sensitive_count, error_count, outcomes,
                   retries, response_text, response, error_message, wait_time,
                   is_sensitive, attempts, sleeps, backoff_slept, processed_count>>

\* main, lines 576-582: the for loop takes the next URL and calls
\* analyze_url_with_ai, whose locals are initialised (lines 340-343)
NextUrl ==
    /\ program = "ai-suggestor" /\ pc = "for"
    /\ i < Len(urls)
    /\ i' = i + 1
    /\ processed_count' = processed_count + 1
    /\ pc' = "while"
    /\ UNCHANGED <<skvars, program, urls, outfile, sensitive_count, error_count, outcomes,
                   retries, response_text, response, error_message, wait_time,
                   is_sensitive, attempts, sleeps, backoff_slept>>

\* lines 364-426: the call returns a response; a blocked or empty one is
\* given the text "OK", any other has its text stripped and upper-cased; the
\* text is validated and the verdict returned
ClassifyResponds ==
    /\ program = "ai-suggestor" /\ pc = "while"
    /\ retries < max_retries
    /\ \E r \in Responses :
         /\ response' = {r}
         /\ response_text' = (IF ~r.has_text THEN "OK" ELSE upper(strip(r.text)))
         /\ is_sensitive' = Validate(response_text')
    /\ attempts' = attempts + 1
    /\ pc' = "returned"
    /\ UNCHANGED <<skvars, program, urls, i, outfile, sensitive_count, processed_count,
                   error_count, outcomes, retries, error_message, wait_time,
                   sleeps, backoff_slept>>

\* lines 428-463: the call raises; the except block retries after a sleep
\* or returns None
ClassifyRaises ==
    /\ program = "ai-suggestor" /\ pc = "while"
    /\ retries < max_retries
    /\ attempts' = attempts + 1
    /\ \E m \in ErrorMessages :
         /\ error_message' = {m}
         /\ IF IsRateLimit(m)
            THEN /\ wait_time' = RateLimitWait(parse_retry_delay(m))
                 /\ sleeps' = sleeps + 1
                 /\ backoff_slept' = None
                 /\ retries' = retries + 1
                 /\ pc' = "while"
                 /\ UNCHANGED is_sensitive
            ELSE IF IsServerError(m)
            THEN /\ wait_time' = ServerErrorWait(retries)
                 /\ sleeps' = sleeps + 1
                 /\ backoff_slept' = IF backoff_slept # None /\ PlainServer(m)
                                      THEN backoff_slept + wait_time'
                                      ELSE None
                 /\ retries' = retries + 1
                 /\ pc' = "while"
                 /\ UNCHANGED is_sensitive
            ELSE IF IsAuthError(m)
            THEN /\ is_sensitive' = "None"
                 /\ pc' = "returned"
                 /\ UNCHANGED <<wait_time, sleeps, backoff_slept, retries>>
            ELSE /\ is_sensitive' = "None"
                 /\ pc' = "returned"
                 /\ UNCHANGED <<wait_time, sleeps, backoff_slept, retries>>
    /\ UNCHANGED <<skvars, program, urls, i, outfile, sensitive_count, processed_count,
                   error_count, outcomes, response_text, response>>

\* lines 364 and 465-467: the while condition fails, None is returned
RetriesExhausted ==
    /\ program = "ai-suggestor" /\ pc = "while"
    /\ ~(retries < max_retries)
    /\ is_sensitive' = "None"
    /\ pc' = "returned"
    /\ UNCHANGED <<skvars, program, urls, i, outfile, sensitive_count, processed_count,
                   error_count, outcomes, retries, response_text, response, error_message,
                   wait_time, attempts, sleeps, backoff_slept>>

\* main writing a sensitive URL to a file it has opened afresh
RecordResult_rewrite ==
    /\ program = "ai-suggestor" /\ pc = "returned"
    /\ IF is_sensitive = "True"
       THEN /\ outfile' = <<urls[i]>>
            /\ sensitive_count' = sensitive_count + 1
            /\ outcomes' = Append(outcomes, "sensitive")
            /\ UNCHANGED error_count
       ELSE IF is_sensitive = "False"
       THEN /\ outcomes' = Append(outcomes, "OK")
            /\ UNCHANGED <<outfile, sensitive_count, error_count>>
       ELSE /\ error_count' = error_count + 1
            /\ outcomes' = Append(outcomes, "failed")
            /\ UNCHANGED <<outfile, sensitive_count>>
    /\ response' = {}
    /\ retries' = 0 /\ response_text' = "None" /\ error_message' = {}
    /\ wait_time' = None /\ is_sensitive' = "None"
    /\ attempts' = 0 /\ sleeps' = 0 /\ backoff_slept' = 0
    /\ pc' = "for"
    /\ UNCHANGED <<skvars, program, urls, i, processed_count>>

\* main ending the loop at the first URL whose analysis failed
RecordResult_abort ==
    /\ program = "ai-suggestor" /\ pc = "returned"
    /\ IF is_sensitive = "True"
       THEN /\ outfile' = Append(outfile, urls[i])
            /\ sensitive_count' = sensitive_count + 1
            /\ outcomes' = Append(outcomes, "sensitive")
            /\ UNCHANGED error_count
       ELSE IF is_sensitive = "False"
       THEN /\ outcomes' = Append(outcomes, "OK")
            /\ UNCHANGED <<outfile, sensitive_count, error_count>>
       ELSE /\ error_count' = error_count + 1
            /\ outcomes' = Append(outcomes, "failed")
            /\ UNCHANGED <<outfile, sensitive_count>>
    /\ response' = {}
    /\ retries' = 0 /\ response_text' = "None" /\ error_message' = {}
    /\ wait_time' = None /\ is_sensitive' = "None"
    /\ attempts' = 0 /\ sleeps' = 0 /\ backoff_slept' = 0
    /\ pc' = IF is_sensitive \in {"True", "False"} THEN "for" ELSE "done"
    /\ UNCHANGED <<skvars, program, urls, i, processed_count>>

\* main, lines 585-599: the result of the call is recorded
RecordResult ==
    /\ program = "ai-suggestor" /\ pc = "returned"
    /\ IF is_sensitive = "True"
       THEN /\ outfile' = Append(outfile, urls[i])
            /\ sensitive_count' = sensitive_count + 1
            /\ outcomes' = Append(outcomes, "sensitive")
            /\ UNCHANGED error_count
       ELSE IF is_sensitive = "False"
       THEN /\ outcomes' = Append(outcomes, "OK")
            /\ UNCHANGED <<outfile, sensitive_count, error_count>>
       ELSE /\ error_count' = error_count + 1
            /\ outcomes' = Append(outcomes, "failed")
            /\ UNCHANGED <<outfile, sensitive_count>>
    /\ response' = {}
    /\ retries' = 0 /\ response_text' = "None" /\ error_message' = {}
    /\ wait_time' = None /\ is_sensitive' = "None"
    /\ attempts' = 0 /\ sleeps' = 0 /\ backoff_slept' = 0
    /\ pc' = "for"
    /\ UNCHANGED <<skvars, program, urls, i, processed_count>>

\* main, lines 606-613: the loop is over, the summary is printed
Summary ==
    /\ program = "ai-suggestor" /\ pc = "for"
    /\ i = Len(urls)
    /\ pc' = "done"
    /\ UNCHANGED <<skvars, program, urls, aivars>>

\* ai-suggestor.py installs no handler for SIGINT: an interrupt raises
\* KeyboardInterrupt where main is, which no except clause catches
\* (lines 428, 601, 616 and 621 catch Exception at most); the with block
\* closes the output file and the process ends without the summary
KeyboardInterrupt ==
    /\ program = "ai-suggestor" /\ pc \in {"for", "while", "returned"}
    /\ pc' = "interrupted"
    /\ response' = {}
    /\ retries' = 0 /\ response_text' = "None" /\ error_message' = {}
    /\ wait_time' = None /\ is_sensitive' = "None"
    /\ attempts' = 0 /\ sleeps' = 0 /\ backoff_slept' = 0
    /\ UNCHANGED <<skvars, program, urls, i, outfile, sensitive_count,
                   processed_count, error_count, outcomes>>

\* main, lines 485-488: fewer than three arguments; sys.exit(1)
TooFewArguments ==
    /\ program = "ai-suggestor" /\ pc = "start"
    /\ pc' = "exit_1"
    /\ UNCHANGED <<program, urls, aivars, skvars>>

\* main, lines 491-495: argparse rejects the arguments (a concurrency other
\* than yes/no, a model_choice other than 1, 2, 3) by raising SystemExit,
\* which main catches and returns from: the process ends with status 0
ArgparseRejects ==
    /\ program = "ai-suggestor" /\ pc = "start"
    /\ pc' = "return_on_SystemExit"
    /\ UNCHANGED <<program, urls, aivars, skvars>>

\* main, lines 519-527: validate_model_choice returns None; sys.exit(1)
ValidationFails ==
    /\ program = "ai-suggestor" /\ pc = "start"
    /\ pc' = "exit_1"
    /\ UNCHANGED <<program, urls, aivars, skvars>>

\* main, lines 531-534: configure_ai_client returns False; sys.exit(1)
ConfigureFails ==
    /\ program = "ai-suggestor" /\ pc = "start"
    /\ pc' = "exit_1"
    /\ UNCHANGED <<program, urls, aivars, skvars>>

\* main, lines 540-542: the input file does not exist; sys.exit(1)
InputMissing ==
    /\ program = "ai-suggestor" /\ pc = "start"
    /\ pc' = "exit_1"
    /\ UNCHANGED <<program, urls, aivars, skvars>>

\* main, lines 545-546 and 616-624: reading the input file raises;
\* sys.exit(1)
InputUnreadable ==
    /\ program = "ai-suggestor" /\ pc = "start"
    /\ pc' = "exit_1"
    /\ UNCHANGED <<program, urls, aivars, skvars>>

NextAI ==
    \/ TooFewArguments \/ ArgparseRejects \/ ValidationFails
    \/ ConfigureFails \/ InputMissing \/ InputUnreadable
    \/ ReadUrls \/ NextUrl \/ ClassifyResponds \/ ClassifyRaises
    \/ RetriesExhausted \/ RecordResult \/ Summary \/ KeyboardInterrupt

\* ------------------------------------------------------------------------
\* sort-keywords.py
\* ------------------------------------------------------------------------
\* keywords the pattern can match (two of the list of lines 18-25)
Keywords == {"confidential", "salary"}

\* ThreadPoolExecutor(max_workers=5)
max_workers == 5

InitSK ==
    /\ program = "sort-keywords"
    /\ urls \in Batches
    /\ outfile = <<>>
    /\ use_concurrency \in BOOLEAN
    /\ pc = "start"
    /\ IdleSK
    /\ IdleAI

\* findings left in the order of arrival
SortByUrl_unsorted(s) == s

\* findings.sort(key=lambda x: x[0]): a stable sort on the URL
RECURSIVE InsertByUrl(_, _)
InsertByUrl(s, x) ==
    IF s = <<>> THEN <<x>>
    ELSE IF s[Len(s)][1] <= x[1] THEN Append(s, x)
    ELSE Append(InsertByUrl(SubSeq(s, 1, Len(s) - 1), x), s[Len(s)])

RECURSIVE SortByUrl(_)
SortByUrl(s) ==
    IF s = <<>> THEN <<>>
    ELSE InsertByUrl(SortByUrl(SubSeq(s, 1, Len(s) - 1)), s[Len(s)])

\* calls of check_pdf_url that hold a pool thread
Running == {n \in 1..Len(urls) : task[n] \in {"get", "lock", "append"}}

\* a handler that flips the flag at every signal
signal_handler_toggle ==
    /\ program = "sort-keywords" /\ pc \notin {"done", "exit_1"}
    /\ stop_requested' = ~stop_requested
    /\ UNCHANGED <<program, urls, pc, aivars, use_concurrency, findings,
                   findings_lock, k, task, result, matches, checked, output_file>>

\* signal_handler, lines 34-38
signal_handler ==
    /\ program = "sort-keywords" /\ pc \notin {"done", "exit_1"}
    /\ stop_requested' = (IF ~stop_requested THEN TRUE ELSE stop_requested)
    /\ UNCHANGED <<program, urls, pc, aivars, use_concurrency, findings,
                   findings_lock, k, task, result, matches, checked, output_file>>

\* main, lines 111-128: the list is read; an empty list gives an empty
\* output file, otherwise process_urls is entered
ReadPdfUrls ==
    /\ program = "sort-keywords" /\ pc = "start"
    /\ pc' = IF urls = <<>> THEN "done"
             ELSE IF use_concurrency THEN "submit" ELSE "loop"
    /\ UNCHANGED <<program, urls, aivars, skvars>>

\* the comprehension taking a URL without submitting it
Submit_dropping ==
    /\ program = "sort-keywords" /\ pc = "submit"
    /\ k < Len(urls)
    /\ k' = k + 1
    /\ UNCHANGED <<program, urls, pc, aivars, use_concurrency, stop_requested,
                   findings, findings_lock, task, result, matches, checked,
                   output_file>>

\* process_urls, line 81: the comprehension takes the next URL and submits
\* it unless stop_requested
Submit ==
    /\ program = "sort-keywords" /\ pc = "submit"
    /\ k < Len(urls)
    /\ k' = k + 1
    /\ task' = IF ~stop_requested THEN [task EXCEPT ![k + 1] = "queued"] ELSE task
    /\ UNCHANGED <<program, urls, pc, aivars, use_concurrency, stop_requested,
                   findings, findings_lock, result, matches, checked, output_file>>

\* process_urls returning once every submitted call has started
Join_started ==
    /\ program = "sort-keywords" /\ pc = "submit"
    /\ k = Len(urls)
    /\ \A n \in 1..Len(urls) : task[n] # "queued"
    /\ pc' = "sort"
    /\ UNCHANGED <<program, urls, aivars, skvars>>

\* process_urls returning while submitted calls are still running
Join_nowait ==
    /\ program = "sort-keywords" /\ pc = "submit"
    /\ k = Len(urls)
    /\ pc' = "sort"
    /\ UNCHANGED <<program, urls, aivars, skvars>>

\* process_urls, lines 82-86 and the exit of the with block: every submitted
\* future has a result and the pool has shut down
Join ==
    /\ program = "sort-keywords" /\ pc = "submit"
    /\ k = Len(urls)
    /\ \A n \in 1..Len(urls) : task[n] \in {"unsubmitted", "done"}
    /\ pc' = "sort"
    /\ UNCHANGED <<program, urls, aivars, skvars>>

\* process_urls, lines 88-90: the sequential loop takes the next URL, or
\* ends at the end of the list or when stop_requested
LoopNext ==
    /\ program = "sort-keywords" /\ pc = "loop"
    /\ IF k < Len(urls) /\ ~stop_requested
       THEN /\ k' = k + 1
            /\ pc' = "call"
       ELSE /\ pc' = "sort"
            /\ UNCHANGED k
    /\ UNCHANGED <<program, urls, aivars, use_concurrency, stop_requested,
                   findings, findings_lock, task, result, matches, checked,
                   output_file>>

\* check_pdf_url, lines 40-45: the call returns at once when stop_requested,
\* otherwise it sends the request
Enter(n) ==
    /\ checked' = [checked EXCEPT ![n] = @ + 1]
    /\ IF stop_requested
       THEN /\ task' = [task EXCEPT ![n] = "done"]
            /\ result' = [result EXCEPT ![n] = "skipped"]
       ELSE /\ task' = [task EXCEPT ![n] = "get"]
            /\ UNCHANGED result

\* process_urls, line 91: the sequential loop calls check_pdf_url
LoopCall ==
    /\ program = "sort-keywords" /\ pc = "call"
    /\ Enter(k)
    /\ pc' = "wait"
    /\ UNCHANGED <<program, urls, aivars, use_concurrency, stop_requested,
                   findings, findings_lock, k, matches, output_file>>

\* the loop going on without waiting for the call to return
LoopReturn_nowait ==
    /\ program = "sort-keywords" /\ pc = "wait"
    /\ pc' = "loop"
    /\ UNCHANGED <<program, urls, aivars, skvars>>

\* process_urls, line 91: the call has returned
LoopReturn ==
    /\ program = "sort-keywords" /\ pc = "wait"
    /\ task[k] = "done"
    /\ pc' = "loop"
    /\ UNCHANGED <<program, urls, aivars, skvars>>

\* a pool that starts a queued call whether or not a thread is free
BeginAt_unbounded(n) ==
    /\ program = "sort-keywords"
    /\ task[n] = "queued"
    /\ \A j \in 1..(n - 1) : task[j] # "queued"
    /\ Enter(n)
    /\ UNCHANGED <<program, urls, pc, aivars, use_concurrency, stop_requested,
                   findings, findings_lock, k, matches, output_file>>

\* a pool that takes a queued call off the queue without running it
BeginAt_dropping(n) ==
    /\ program = "sort-keywords"
    /\ task[n] = "queued"
    /\ task' = [task EXCEPT ![n] = "done"]
    /\ UNCHANGED <<program, urls, pc, aivars, use_concurrency, stop_requested,
                   findings, findings_lock, k, result, matches, checked,
                   output_file>>

\* a pool thread takes the oldest queued call and runs it
BeginAt(n) ==
    /\ program = "sort-keywords"
    /\ task[n] = "queued"
    /\ \A j \in 1..(n - 1) : task[j] # "queued"
    /\ Cardinality(Running) < max_workers
    /\ Enter(n)
    /\ UNCHANGED <<program, urls, pc, aivars, use_concurrency, stop_requested,
                   findings, findings_lock, k, matches, output_file>>

\* check_pdf_url ends without a finding
Ends(n, how) ==
    /\ program = "sort-keywords"
    /\ task[n] = "get"
    /\ task' = [task EXCEPT ![n] = "done"]
    /\ result' = [result EXCEPT ![n] = how]
    /\ UNCHANGED <<program, urls, pc, aivars, use_concurrency, stop_requested,
                   findings, findings_lock, k, matches, checked, output_file>>

\* lines 47-49: status 404
NotFoundAt(n) == Ends(n, "not_found")

\* an HTTP error after which the call is queued again
HttpErrorAt_retry(n) ==
    /\ program = "sort-keywords"
    /\ task[n] = "get"
    /\ task' = [task EXCEPT ![n] = "queued"]
    /\ UNCHANGED <<program, urls, pc, aivars, use_concurrency, stop_requested,
                   findings, findings_lock, k, result, matches, checked,
                   output_file>>

\* lines 51 and 66-70: raise_for_status raises HTTPError
HttpErrorAt(n) == Ends(n, "failed")

\* lines 45 and 71-72: requests.get raises (connection error, timeout)
RequestErrorAt(n) == Ends(n, "failed")

\* lines 53 and 73-74: fitz.open raises FileDataError
PdfErrorAt(n) == Ends(n, "failed")

\* lines 75-76: any other exception
UnexpectedAt(n) == Ends(n, "failed")

\* lines 55-64: no keyword matches
NoMatchAt(n) == Ends(n, "clear")

\* the call going for findings_lock whether or not a keyword matched
MatchAt_any(n) ==
    /\ program = "sort-keywords"
    /\ task[n] = "get"
    /\ \E found_keywords \in SUBSET Keywords :
         matches' = [matches EXCEPT ![n] = found_keywords]
    /\ task' = [task EXCEPT ![n] = "lock"]
    /\ UNCHANGED <<program, urls, pc, aivars, use_concurrency, stop_requested,
                   findings, findings_lock, k, result, checked, output_file>>

\* lines 55-60: keywords match; the call goes for findings_lock
MatchAt(n) ==
    /\ program = "sort-keywords"
    /\ task[n] = "get"
    /\ \E found_keywords \in (SUBSET Keywords) \ {{}} :
         matches' = [matches EXCEPT ![n] = found_keywords]
    /\ task' = [task EXCEPT ![n] = "lock"]
    /\ UNCHANGED <<program, urls, pc, aivars, use_concurrency, stop_requested,
                   findings, findings_lock, k, result, checked, output_file>>

\* the with block entered without waiting for findings_lock
AcquireAt_unlocked(n) ==
    /\ program = "sort-keywords"
    /\ task[n] = "lock"
    /\ findings_lock' = n
    /\ task' = [task EXCEPT ![n] = "append"]
    /\ UNCHANGED <<program, urls, pc, aivars, use_concurrency, stop_requested,
                   findings, k, result, matches, checked, output_file>>

\* line 61: findings_lock is acquired
AcquireAt(n) ==
    /\ program = "sort-keywords"
    /\ task[n] = "lock"
    /\ findings_lock = 0
    /\ findings_lock' = n
    /\ task' = [task EXCEPT ![n] = "append"]
    /\ UNCHANGED <<program, urls, pc, aivars, use_concurrency, stop_requested,
                   findings, k, result, matches, checked, output_file>>

\* the append skipping a URL that findings already holds
AppendFindingAt_dedup(n) ==
    /\ program = "sort-keywords"
    /\ task[n] = "append"
    /\ findings' = IF \E a \in 1..Len(findings) : findings[a][1] = urls[n]
                   THEN findings
                   ELSE Append(findings, <<urls[n], matches[n]>>)
    /\ findings_lock' = 0
    /\ task' = [task EXCEPT ![n] = "done"]
    /\ result' = [result EXCEPT ![n] = "flagged"]
    /\ UNCHANGED <<program, urls, pc, aivars, use_concurrency, stop_requested,
                   k, matches, checked, output_file>>

\* line 62 and the exit of the with block: the finding is appended and the
\* lock released
AppendFindingAt(n) ==
    /\ program = "sort-keywords"
    /\ task[n] = "append"
    /\ findings' = Append(findings, <<urls[n], matches[n]>>)
    /\ findings_lock' = 0
    /\ task' = [task EXCEPT ![n] = "done"]
    /\ result' = [result EXCEPT ![n] = "flagged"]
    /\ UNCHANGED <<program, urls, pc, aivars, use_concurrency, stop_requested,
                   k, matches, checked, output_file>>

\* the output file opened for appending
WriteLines_append(file, lines) == file \o lines

\* main, lines 131-134: open(OUTPUT_FILE, 'w') empties the file, then one
\* line is written per finding
WriteLines(file, lines) == lines

\* main, line 130
SortFindings ==
    /\ program = "sort-keywords" /\ pc = "sort"
    /\ findings' = SortByUrl(findings)
    /\ pc' = "write"
    /\ UNCHANGED <<program, urls, aivars, use_concurrency, stop_requested,
                   findings_lock, k, task, result, matches, checked, output_file>>

\* the report left empty when the run was cancelled
WriteOutput_uncancelled ==
    /\ program = "sort-keywords" /\ pc = "write"
    /\ output_file' = IF stop_requested THEN <<>> ELSE findings
    /\ pc' = "done"
    /\ UNCHANGED <<program, urls, aivars, use_concurrency, stop_requested,
                   findings, findings_lock, k, task, result, matches, checked>>

\* main, lines 131-136: one line per finding
WriteOutput ==
    /\ program = "sort-keywords" /\ pc = "write"
    /\ output_file' = WriteLines(output_file, findings)
    /\ pc' = "done"
    /\ UNCHANGED <<program, urls, aivars, use_concurrency, stop_requested,
                   findings, findings_lock, k, task, result, matches, checked>>

Begin == \E n \in 1..Len(urls) : BeginAt(n)

NotFound == \E n \in 1..Len(urls) : NotFoundAt(n)

HttpError == \E n \in 1..Len(urls) : HttpErrorAt(n)

RequestError == \E n \in 1..Len(urls) : RequestErrorAt(n)

PdfError == \E n \in 1..Len(urls) : PdfErrorAt(n)

Unexpected == \E n \in 1..Len(urls) : UnexpectedAt(n)

NoMatch == \E n \in 1..Len(urls) : NoMatchAt(n)

Match == \E n \in 1..Len(urls) : MatchAt(n)

Acquire == \E n \in 1..Len(urls) : AcquireAt(n)

AppendFinding == \E n \in 1..Len(urls) : AppendFindingAt(n)

\* main, lines 96-99: not exactly two arguments; sys.exit(1)
WrongArgumentCount ==
    /\ program = "sort-keywords" /\ pc = "start"
    /\ pc' = "exit_1"
    /\ UNCHANGED <<program, urls, aivars, skvars>>

\* main, lines 107-109: the input file does not exist; sys.exit(1)
PdfInputMissing ==
    /\ program = "sort-keywords" /\ pc = "start"
    /\ pc' = "exit_1"
    /\ UNCHANGED <<program, urls, aivars, skvars>>

\* main, lines 111-116: reading the input file raises; sys.exit(1)
PdfInputUnreadable ==
    /\ program = "sort-keywords" /\ pc = "start"
    /\ pc' = "exit_1"
    /\ UNCHANGED <<program, urls, aivars, skvars>>

NextSK ==
    \/ WrongArgumentCount \/ PdfInputMissing \/ PdfInputUnreadable
    \/ signal_handler \/ ReadPdfUrls \/ Submit \/ Join
    \/ LoopNext \/ LoopCall \/ LoopReturn
    \/ Begin \/ NotFound \/ HttpError \/ RequestError \/ PdfError
    \/ Unexpected \/ NoMatch \/ Match \/ Acquire \/ AppendFinding
    \/ SortFindings \/ WriteOutput

Init == InitAI \/ InitSK

Next == NextAI \/ NextSK

Spec == Init /\ [][Next]_vars

\* a concurrent run of sort-keywords.py on a batch one larger than the pool,
\* every URL of which downloads and opens
PoolBatch == max_workers + 1

InitPool ==
    /\ program = "sort-keywords"
    /\ urls = [n \in 1..PoolBatch |-> 1]
    /\ outfile = <<>>
    /\ use_concurrency = TRUE
    /\ pc = "start"
    /\ IdleSK
    /\ IdleAI

NextPool ==
    \/ signal_handler \/ ReadPdfUrls \/ Submit \/ Join
    \/ Begin \/ NoMatch \/ Match \/ Acquire \/ AppendFinding
    \/ SortFindings \/ WriteOutput

PoolSpec == InitPool /\ [][NextPool]_vars

\* sort-keywords.py with its threads scheduled: the main thread and the pool
\* threads keep running, and a request that is in flight returns (line 45
\* gives it a timeout); the signal is the one step nothing obliges
SchedulerSK ==
    \/ ReadPdfUrls \/ Submit \/ Join
    \/ LoopNext \/ LoopCall \/ LoopReturn
    \/ Begin \/ NotFound \/ HttpError \/ RequestError \/ PdfError
    \/ Unexpected \/ NoMatch \/ Match \/ Acquire \/ AppendFinding
    \/ SortFindings \/ WriteOutput

FairSpecSK == InitSK /\ [][NextSK]_vars /\ WF_vars(SchedulerSK)

\* ------------------------------------------------------------------------
\* Properties
\* ------------------------------------------------------------------------
Positions == 1..Len(urls)

AI == program = "ai-suggestor"
SK == program = "sort-keywords"

\* the lines the output file of ai-suggestor held before this run, and the
\* lines this run has added
EarlierLines == SelectSeq(outfile, LAMBDA x : x = 0)

AddedLines == SelectSeq(outfile, LAMBDA x : x # 0)

\* process_urls has returned
AfterProcessUrls == pc \in {"sort", "write", "done"}

\* the delay an error message announces, in whichever pattern
Announced(m) ==
    IF m.retry_delay # None THEN m.retry_delay
    ELSE IF m.retry_after # None THEN m.retry_after
    ELSE m.try_again

\* the delay the rate limit handling reads off a message: the number of
\* "retry_delay { seconds: N }" or "retry after N seconds", or of
\* "try again in Ns" inside a "rate limit reached"/"quota exceeded" message
Extracted(m) ==
    IF m.retry_delay # None THEN m.retry_delay
    ELSE IF m.retry_after # None THEN m.retry_after
    ELSE IF m.phrase THEN m.try_again
    ELSE None

\* an exception of the current call has just been handled by a sleep and
\* the loop is about to make attempt number retries + 1
Retried == AI /\ pc = "while" /\ error_message # {}

\* the current call has returned because of the exception it caught last
ReturnedOnError ==
    /\ AI /\ pc = "returned" /\ error_message # {}
    /\ response_text = "None" /\ attempts = retries + 1

\* the current call has returned because the while condition failed
ReturnedExhausted ==
    /\ AI /\ pc = "returned" /\ error_message # {}
    /\ response_text = "None" /\ attempts = retries

\* C1: with no cancellation every submitted URL gets exactly one terminal
\* result: in ai-suggestor the loop records one of sensitive, OK, failed for
\* each URL it has finished and for all of them at the end; in sort-keywords
\* check_pdf_url is called at most once per URL, and exactly once, ending in
\* a terminal result, when process_urls has returned without stop_requested.
C1_ExactlyOneResult ==
    /\ (AI /\ pc # "interrupted") =>
         /\ Len(outcomes) = (IF pc \in {"while", "returned"} THEN i - 1 ELSE i)
         /\ processed_count = i
         /\ \A n \in 1..Len(outcomes) : outcomes[n] \in {"sensitive", "OK", "failed"}
         /\ pc = "done" => Len(outcomes) = Len(urls)
    /\ SK =>
         /\ \A n \in Positions : checked[n] <= 1
         /\ (AfterProcessUrls /\ ~stop_requested) =>
               \A n \in Positions :
                  /\ checked[n] = 1
                  /\ result[n] \in {"not_found", "failed", "clear", "flagged"}

C1_Witness ==
    /\ SK /\ use_concurrency /\ pc = "done" /\ ~stop_requested
    /\ Len(urls) >= 2
    /\ result[1] = "flagged" /\ result[2] = "failed"

\* C2 (as claimed): when every classify call for a URL fails with a
\* server/connection error announcing no delay, the call makes 5 attempts,
\* returns None, and has slept 4 times, 15+30+45+60 = 150 seconds in all.
C2_Exhaustion ==
    (ReturnedExhausted /\ backoff_slept # None) =>
        /\ attempts = 5
        /\ is_sensitive = "None"
        /\ sleeps = 4
        /\ backoff_slept = 15 + 30 + 45 + 60

RECURSIVE FlaggedOf(_, _)
FlaggedOf(u, n) ==
    IF n = 0 THEN <<>>
    ELSE IF urls[n] = u /\ result[n] = "flagged"
         THEN Append(FlaggedOf(u, n - 1), <<urls[n], matches[n]>>)
         ELSE FlaggedOf(u, n - 1)

\* the flagged entries of the URLs up to u, URL by URL
RECURSIVE FlaggedByUrl(_)
FlaggedByUrl(u) ==
    IF u = 0 THEN <<>>
    ELSE FlaggedByUrl(u - 1) \o FlaggedOf(u, Len(urls))

\* the sequence a run writes when its calls complete in input order
InputOrderOutput == FlaggedByUrl(MaxUrl)

SortedByUrl(s) == \A a, b \in 1..Len(s) : a < b => s[a][1] <= s[b][1]

Occurrences(s, e) == Cardinality({a \in 1..Len(s) : s[a] = e})

ConcurrentDone == SK /\ use_concurrency /\ pc = "done" /\ urls # <<>>

FatalMessage(m) == ~m.rate_limit /\ ~m.server

\* C6: a fatal failure at any attempt, whatever delay it announces, makes
\* the call return None at once: no sleep follows it (there are as many
\* sleeps as earlier attempts), and it never leads back into the loop.
C6_FatalShortCircuit ==
    /\ Retried => ~FatalMessage(LastError)
    /\ (AI /\ pc = "returned" /\ error_message # {} /\ response_text = "None"
           /\ FatalMessage(LastError)) =>
          /\ is_sensitive = "None"
          /\ attempts = retries + 1
          /\ sleeps = attempts - 1

C6_Witness ==
    /\ ReturnedOnError /\ attempts = 1 /\ sleeps = 0
    /\ LastError.auth /\ LastError.retry_after = MaxDelay
    /\ is_sensitive = "None"

\* C7 (as claimed): an exception with an authentication indicator is never
\* retried, whatever other indicators its message has, and neither is an
\* exception with no transient indicator.
C7_AuthNeverRetried ==
    Retried => (~LastError.auth /\ (LastError.rate_limit \/ LastError.server))

\* C8 (as claimed): after the 5th failed attempt there is no wait: a call
\* that has made 5 attempts, all failed, has slept 4 times.
C8_NoWaitAfterLastAttempt ==
    (AI /\ attempts = max_retries /\ retries = max_retries) =>
        sleeps = max_retries - 1

RetryThenSuccess ==
    /\ AI /\ pc = "returned" /\ error_message # {}
    /\ response_text # "None" /\ attempts = 2

C11_InFlight == {n \in Positions : task[n] \notin {"unsubmitted", "queued", "done"}}

C11_AtMostWInFlight ==
    (SK /\ use_concurrency) => Cardinality(C11_InFlight) <= 5

\* the pool is full and a submitted call is waiting for a thread
C11_Witness ==
    /\ SK /\ use_concurrency
    /\ Cardinality(C11_InFlight) = 5
    /\ \E n \in Positions : task[n] = "queued"

\* C12: in a sequential run the URLs are attempted in input order, the URL
\* at position n has its outcome, retries and waits included, before anything
\* is attempted on position n + 1, and at most one URL is in flight
C12_Started(n) ==
    IF SK THEN checked[n] > 0 ELSE n <= i

C12_Finished(n) ==
    IF SK THEN task[n] = "done" /\ result[n] # "pending"
    ELSE n <= Len(outcomes)

C12_SequentialInOrder ==
    ((SK /\ ~use_concurrency) \/ AI) =>
        /\ \A n \in Positions : \A j \in 1..(n - 1) :
              C12_Started(n) => C12_Finished(j)
        /\ Cardinality({n \in Positions :
                          C12_Started(n) /\ ~C12_Finished(n)}) <= 1
        /\ AI => (attempts > 0 => Len(outcomes) = i - 1)

\* the second URL is in flight after the first has had its outcome
C12_Witness ==
    /\ SK /\ ~use_concurrency
    /\ Len(urls) >= 2
    /\ task[2] = "get"
    /\ result[1] \in {"failed", "clear", "flagged", "not_found"}

\* C13: once cancellation has been requested no call starts a classify
\* attempt or a retry wait and no URL that had not started is admitted,
\* while a call in flight at that moment runs to its end and is not aborted
C13_Cancelled == (SK /\ stop_requested) \/ (AI /\ pc = "interrupted")

C13_Cancellation ==
    [][/\ C13_Cancelled =>
            /\ \A n \in Positions :
                 /\ task[n] # "get" => task'[n] # "get"
                 /\ task[n] = "unsubmitted" => task'[n] \notin {"queued", "get"}
                 /\ task[n] \in {"get", "lock", "append"} => result'[n] # "skipped"
            /\ attempts' = attempts /\ sleeps' = sleeps
       /\ (~C13_Cancelled /\ C13_Cancelled') =>
            /\ \A n \in Positions :
                 task[n] \in {"get", "lock", "append"} => task'[n] = task[n]
            /\ AI => pc \notin {"while", "returned"}
      ]_vars

\* C14: a run of sort-keywords that has read its input and in which
\* cancellation is requested goes on to write its report, and the report holds every finding a call recorded,
\* before the request or after it; a call in flight at the request can still
\* end clear or flagged
C14_ReportHoldsFindings ==
    \A n \in Positions :
        result[n] = "flagged" =>
            \E a \in 1..Len(output_file) : output_file[a] = <<urls[n], matches[n]>>

C14_InFlightNotForced ==
    \A n \in Positions :
        (stop_requested /\ task[n] = "get") =>
            (ENABLED NoMatchAt(n)) /\ (ENABLED MatchAt(n))

C14_CancelledRunReports ==
    /\ [](SK /\ pc = "done" => C14_ReportHoldsFindings)
    /\ [](SK => C14_InFlightNotForced)
    /\ (SK /\ stop_requested /\ pc \notin {"start", "exit_1"})
           ~> (pc = "done" /\ C14_ReportHoldsFindings)

\* a cancelled run has written a finding and left a URL unattempted
C14_Witness ==
    /\ SK /\ pc = "done" /\ stop_requested
    /\ output_file # <<>>
    /\ \E n \in Positions : result[n] = "flagged"
    /\ \E n \in Positions : result[n] \in {"pending", "skipped"}

\* C15: when process_urls has returned, cancelled or not, every URL of the
\* batch was either processed exactly once, with one result, or abandoned
\* without a request, never both and never neither; the results number the
\* URLs less the abandoned ones
C15_Processed == {n \in Positions :
                    result[n] \in {"not_found", "failed", "clear", "flagged"}}

C15_Abandoned == {n \in Positions : result[n] \in {"pending", "skipped"}}

C15_Conservation ==
    (SK /\ AfterProcessUrls) =>
        /\ \A n \in Positions : task[n] \in {"unsubmitted", "done"}
        /\ \A n \in C15_Processed : checked[n] = 1 /\ task[n] = "done"
        /\ \A n \in C15_Abandoned :
              /\ result[n] = "pending" => checked[n] = 0 /\ task[n] = "unsubmitted"
              /\ result[n] = "skipped" => stop_requested /\ matches[n] = {}
              /\ \A a \in 1..Len(findings) : findings[a][1] = urls[n] =>
                    \E j \in C15_Processed : urls[j] = urls[n]
        /\ C15_Processed \cap C15_Abandoned = {}
        /\ Cardinality(C15_Processed) = Len(urls) - Cardinality(C15_Abandoned)

\* a cancelled concurrent run has processed one URL and abandoned another
C15_Witness ==
    /\ SK /\ use_concurrency /\ pc = "sort" /\ stop_requested
    /\ Len(urls) >= 2
    /\ result[1] = "clear" /\ result[2] = "skipped"

\* C16: a failed URL never ends the batch and never touches another URL's
\* outcome: every URL after it is still attempted, from the same state and
\* with the same outcomes open to it as after a URL that came out clear
C16_FreshCall ==
    /\ retries = 0 /\ attempts = 0 /\ sleeps = 0
    /\ error_message = {} /\ response_text = "None" /\ wait_time = None

C16_FailureIsolation ==
    /\ AI =>
         /\ pc = "done" => Len(outcomes) = Len(urls)
         /\ (pc = "for" /\ i < Len(urls)) => (C16_FreshCall /\ ENABLED NextUrl)
         /\ (pc = "while" /\ attempts = 0 /\ retries = 0) =>
               (ENABLED ClassifyResponds) /\ (ENABLED ClassifyRaises)
    /\ SK =>
         /\ (AfterProcessUrls /\ ~stop_requested) =>
               \A n \in Positions : result[n] \notin {"pending", "skipped"}
         /\ \A n \in Positions :
               task[n] = "get" =>
                 /\ ENABLED NoMatchAt(n)
                 /\ ENABLED MatchAt(n)
                 /\ ENABLED HttpErrorAt(n)
                 /\ ENABLED NotFoundAt(n)

\* the first URL failed and the second was analysed and came out sensitive
C16_Witness ==
    /\ AI /\ pc = "done"
    /\ Len(urls) >= 2
    /\ outcomes[1] = "failed" /\ outcomes[2] = "sensitive"

\* C17: the counters of the summary of ai-suggestor are the number of URLs
\* processed, the number that came out sensitive and the number that failed,
\* the last two together at most the first; a failed URL is counted as failed
\* and adds no line to the flagged output, in either program
C17_Count(v) == Cardinality({n \in 1..Len(outcomes) : outcomes[n] = v})

RECURSIVE C17_SensitiveUrls(_)
C17_SensitiveUrls(n) ==
    IF n = 0 THEN <<>>
    ELSE IF outcomes[n] = "sensitive"
         THEN Append(C17_SensitiveUrls(n - 1), urls[n])
         ELSE C17_SensitiveUrls(n - 1)

C18_Inside == {n \in Positions : task[n] = "append"}

C18_SerializedAppend ==
    SK =>
        /\ Cardinality(C18_Inside) <= 1
        /\ \A n \in Positions : task[n] = "append" <=> findings_lock = n
        /\ \A n \in Positions :
              task[n] \in {"unsubmitted", "queued"} =>
                  result[n] = "pending" /\ matches[n] = {} /\ checked[n] = 0
        /\ AfterProcessUrls =>
              /\ findings_lock = 0
              /\ Len(findings) = Cardinality({n \in Positions : result[n] = "flagged"})
              /\ \A n \in Positions :
                    result[n] = "flagged" =>
                        Occurrences(findings, <<urls[n], matches[n]>>) =
                            Cardinality({j \in Positions :
                                           /\ result[j] = "flagged"
                                           /\ urls[j] = urls[n]
                                           /\ matches[j] = matches[n]})

\* one call is inside the append while another waits for the lock
C18_Witness ==
    /\ SK /\ use_concurrency
    /\ \E n, j \in Positions : task[n] = "append" /\ task[j] = "lock"

\* C19: when a run of sort-keywords has written its report, sorting
\* findings and writing the file a second time leaves findings as it is and
\* gives the same file
C19_FinalizeIdempotent ==
    (SK /\ pc = "done" /\ urls # <<>>) =>
        /\ SortByUrl(findings) = findings
        /\ WriteLines(output_file, SortByUrl(findings)) = output_file

\* a report of two different lines has been written
C19_Witness ==
    /\ SK /\ pc = "done"
    /\ Len(output_file) = 2
    /\ output_file[1] # output_file[2]

\* C20: every entry of findings, and of the written file, carries at least
\* one keyword and is the entry of a call that found keywords; a URL in whose
\* PDF nothing matched never gets an entry
C20_Evidence(e) == e[2] # {} /\ e[2] \subseteq Keywords

C20_FlaggedHasEvidence ==
    SK =>
        /\ \A a \in 1..Len(findings) :
              /\ C20_Evidence(findings[a])
              /\ \E n \in Positions :
                    result[n] = "flagged" /\ findings[a] = <<urls[n], matches[n]>>
        /\ \A a \in 1..Len(output_file) : C20_Evidence(output_file[a])
        /\ \A n \in Positions : result[n] = "clear" => matches[n] = {}
        /\ Len(findings) = Cardinality({n \in Positions : result[n] = "flagged"})

\* of two occurrences of one URL one was flagged and the other came out clear
C20_Witness ==
    /\ SK
    /\ \E n, j \in Positions :
          /\ urls[n] = urls[j]
          /\ result[n] = "flagged" /\ result[j] = "clear"
    /\ Len(findings) = 1

\* C21 (as claimed): a reply that is empty or blocked, or whose text is not
\* exactly SENSITIVE or OK, ends the call with the verdict OK
C21_Reply == CHOOSE r \in response : TRUE

C21_Word(t) ==
    IF t \in {"SENSITIVE", "sensitive"} THEN "SENSITIVE"
    ELSE IF t \in {"OK", " ok "} THEN "OK"
    ELSE "other"

C22_SetupFailed == pc \in {"exit_1", "return_on_SystemExit"}

C22_ExitStatus == IF pc = "exit_1" THEN 1 ELSE 0

C22_SetupFailsFast ==
    C22_SetupFailed =>
        /\ C22_ExitStatus # 0
        /\ i = 0 /\ attempts = 0 /\ outcomes = <<>> /\ AddedLines = <<>>
        /\ \A n \in Positions : checked[n] = 0
        /\ findings = <<>> /\ output_file = <<>>

\* the lines ai-suggestor's loop (lines 576-589) writes when it takes the
\* URLs us in order and the call on us[n] gives the outcome vs[n]
RECURSIVE main_writes(_, _, _)
main_writes(us, vs, n) ==
    IF n = 0 THEN <<>>
    ELSE IF vs[n] = "sensitive" THEN Append(main_writes(us, vs, n - 1), us[n])
    ELSE main_writes(us, vs, n - 1)

\* the findings the sequential loop of sort-keywords (lines 88-91, 57-62)
\* collects when it takes the URLs us in order and the call on us[n] ends
\* as rs[n], having found the keywords ms[n]
RECURSIVE sequential_findings(_, _, _, _)
sequential_findings(us, rs, ms, n) ==
    IF n = 0 THEN <<>>
    ELSE IF rs[n] = "flagged"
         THEN Append(sequential_findings(us, rs, ms, n - 1), <<us[n], ms[n]>>)
         ELSE sequential_findings(us, rs, ms, n - 1)

\* the orders in which the batch of this run can be given
C23_Permutations ==
    {p \in [Positions -> Positions] : \A a, b \in Positions : p[a] = p[b] => a = b}

C23_Permuted(s, p) == [n \in Positions |-> s[p[n]]]

\* the verdict of this run depends on the URL alone
C23_VerdictByUrl ==
    \A a, b \in Positions :
        urls[a] = urls[b] =>
            /\ AI => outcomes[a] = outcomes[b]
            /\ SK => result[a] = result[b] /\ matches[a] = matches[b]

\* C23: a sequential run without cancellation whose verdicts depend on the
\* URL alone writes the output that the same run writes on any permutation
\* of its batch
C23_PermutationStable ==
    /\ (AI /\ pc = "done" /\ urls # <<>> /\ C23_VerdictByUrl) =>
         \A p \in C23_Permutations :
             main_writes(C23_Permuted(urls, p), C23_Permuted(outcomes, p),
                         Len(urls)) = AddedLines
    /\ (SK /\ ~use_concurrency /\ pc = "done" /\ urls # <<>>
           /\ ~stop_requested /\ C23_VerdictByUrl) =>
         \A p \in C23_Permutations :
             WriteLines(<<>>, SortByUrl(sequential_findings(
                 C23_Permuted(urls, p), C23_Permuted(result, p),
                 C23_Permuted(matches, p), Len(urls)))) = output_file

\* what the sequential loop writes on the batch of this run when each
\* position ends as it has in this run
C24_SequentialOutput ==
    WriteLines(<<>>, SortByUrl(sequential_findings(urls, result, matches,
                                                    Len(urls))))

C24_ConcurrentRunOver ==
    SK /\ use_concurrency /\ pc = "done" /\ urls # <<>> /\ ~stop_requested

C25_Attempting == AI /\ pc = "while" /\ retries < max_retries

C25_Terminal == AI /\ pc = "returned"

C25_StateMachine ==
    AI =>
        /\ retries <= 5 /\ attempts <= 5
        /\ C25_Terminal =>
              /\ attempts >= 1
              /\ is_sensitive \in {"True", "False", "None"}
              /\ ~ENABLED ClassifyResponds /\ ~ENABLED ClassifyRaises
        /\ (pc = "while" /\ sleeps > 0) => C25_Attempting

\* C26: in a concurrent run of sort-keywords, cancelled or not, the sort and
\* the write start only when every submitted call has ended: from then on no
\* call is running or queued, nobody holds findings_lock, and findings holds
\* the entry of every call that flagged its URL
C26_AggregationAfterWorkers ==
    (SK /\ use_concurrency /\ AfterProcessUrls) =>
        /\ \A n \in Positions : task[n] \in {"unsubmitted", "done"}
        /\ \A n \in Positions : task[n] = "unsubmitted" => checked[n] = 0
        /\ findings_lock = 0
        /\ Len(findings) = Cardinality({n \in Positions : result[n] = "flagged"})
        /\ pc = "done" => output_file = findings

\* the sort is about to start after two calls have appended their findings
C26_Witness ==
    /\ SK /\ use_concurrency /\ pc = "sort"
    /\ Len(findings) = 2
    /\ \A n \in Positions : task[n] = "done"

\* C27: check_pdf_url is called at most once for a position of the batch and
\* sends at most one request; a call that failed (HTTP error, connection
\* error or timeout, unreadable PDF, anything else) is over, with nothing
\* left for it to do, and has put no entry in findings
C27_SingleAttempt ==
    SK =>
        /\ \A n \in Positions : checked[n] <= 1
        /\ \A n \in Positions :
              result[n] \in {"failed", "not_found"} =>
                  /\ task[n] = "done" /\ checked[n] = 1
                  /\ matches[n] = {}
                  /\ ~ENABLED BeginAt(n)
                  /\ ~ENABLED HttpErrorAt(n) /\ ~ENABLED MatchAt(n)
                  /\ ~ENABLED AppendFindingAt(n)
        /\ Len(findings) = Cardinality({n \in Positions : result[n] = "flagged"})
        /\ \A a \in 1..Len(findings) :
              \E n \in Positions :
                  result[n] = "flagged" /\ findings[a][1] = urls[n]

\* a run is over in which the one call made has failed
C27_Witness ==
    /\ SK /\ pc = "done" /\ Len(urls) = 1
    /\ result[1] = "failed" /\ checked[1] = 1
    /\ output_file = <<>>

\* C28: the loop of ai-suggestor only ever appends to the output file: a URL
\* whose outcome is OK or failed leaves the file and sensitive_count as they
\* were, a URL whose outcome is sensitive adds that URL as one line, nothing
\* else touches the file, the lines of earlier runs stay where they were, and
\* the lines a run has added are its sensitive URLs in input order
C28_Recorded == outcomes' # outcomes

C28_Outcome == outcomes'[Len(outcomes')]

C28_AppendOnly ==
    /\ [](AI => /\ outfile = EarlierLines \o AddedLines
                /\ AddedLines = C17_SensitiveUrls(Len(outcomes)))
    /\ [][AI =>
            /\ C28_Recorded =>
                 /\ C28_Outcome \in {"OK", "failed"} =>
                       outfile' = outfile /\ sensitive_count' = sensitive_count
                 /\ C28_Outcome = "sensitive" =>
                       /\ outfile' = Append(outfile, urls[i])
                       /\ sensitive_count' = sensitive_count + 1
            /\ ~C28_Recorded =>
                 outfile' = outfile /\ sensitive_count' = sensitive_count
         ]_vars

\* a run has added one line to a file that held a line of an earlier run
C28_Witness ==
    /\ AI /\ pc = "done"
    /\ Len(EarlierLines) = 1 /\ Len(AddedLines) = 1
    /\ outfile[2] = urls[1]

\* C29: stop_requested of sort-keywords is false when the run starts, only a
\* step of signal_handler changes it, a step never takes it from true back to
\* false, and a signal that arrives when it is already true changes nothing
C29_Monotonic ==
    /\ SK => ~stop_requested
    /\ [][SK =>
            /\ stop_requested => stop_requested'
            /\ stop_requested' # stop_requested => signal_handler
            /\ (stop_requested /\ signal_handler) => UNCHANGED vars
         ]_vars

\* a run cancelled before its first call has kept the flag set to its end
C29_Witness ==
    /\ SK /\ pc = "done" /\ stop_requested
    /\ urls # <<>>
    /\ \A n \in Positions : result[n] = "skipped"

====
